---- MODULE Spec2Model ----
(***************************************************************************)
(* Model of the network telemetry analytics pipeline                       *)
(* (src/src/network_analytics/pipeline.py, __main__.py, dashboard.py).     *)
(*                                                                         *)
(* Measurements are exact fixed-point numbers in HALF units: a latency of  *)
(* 120.5 ms is 241, a packet loss of 1.5 % is 3, a CPU load of 90.5 % is   *)
(* 181.  Derived quantities that are not multiples of a half are exact     *)
(* rationals <<numerator, denominator>> in the natural unit (ms, %, score  *)
(* points).  A standard deviation is kept as its square (the variance, in  *)
(* half-units squared) and a z-score as its sign and its square, so that   *)
(* no square root is needed.  NaN is the not-a-number value of pandas.     *)
(***************************************************************************)
EXTENDS Integers, Sequences, FiniteSets, TLC

VARIABLES
    df,             \* the telemetry table held by the caller (a DataFrame)
    latency_stats,  \* outcome of compute_latency_stats, or NoResult
    reliability,    \* outcome of summarize_reliability_metrics, or NoResult
    bottlenecks,    \* outcome of detect_performance_bottlenecks, or NoResult
    reruns,         \* number of calls that recomputed a result already held
    pc,             \* "lib": library client; otherwise the position of main()
    failed_step,    \* the step of main() that raised, or "none"
    csv_file,       \* the bottleneck CSV on disk: absent, partial, complete
    html_file       \* the dashboard HTML on disk: absent, partial, complete

vars == <<df, latency_stats, reliability, bottlenecks, reruns, pc,
          failed_step, csv_file, html_file>>

\* a result not yet computed, a result returned, an exception raised
NoResult == [status |-> "none", value |-> <<>>]
Ok(v) == [status |-> "ok", value |-> v]
Raised(e) == [status |-> e, value |-> <<>>]

\* not-a-number: the rational 0/0
NaN == <<0, 0>>

(***************************************************************** bounds *)
\* longest free part of a table
MaxFree == 2
\* largest number of baseline records padded into a table
MaxPad == 7
\* repeated calls of an analytic function that are counted
MaxReruns == 1

(************************************************************** constants *)
\* 120.0 ms in half units
latency_threshold_ms == 240
\* 2.0 % in half units
packet_loss_threshold_pct == 4
\* 90.0 % in half units
cpu_threshold_pct == 180
\* the z-score limit 2.5 = ZLimitNum / ZLimitDen
ZLimitNum == 5
ZLimitDen == 2
\* clip(upper=5) of packet_loss_pct, in half units
UptimeClip == 10
\* clip(upper=200) of latency_ms, in half units
PerformanceClip == 400

(***************************************************************** inputs *)
Rec(dev, reg, lat, loss, cpu) ==
    [device_id |-> dev, region |-> reg, latency_ms |-> lat,
     packet_loss_pct |-> loss, cpu_utilization_pct |-> cpu]

\* the ordinary record: 50 ms, 0.5 % loss, 50 % CPU
BaseRow == Rec("edge-01", "us-east", 100, 1, 100)

\* records a table is drawn from (latency, loss, cpu in half units)
Rows ==
    { Rec("edge-02", "us-east", 200, 1, 100),    \* 100 ms: below the threshold
      Rec("edge-02", "us-west", 100, 3, 100),    \* 1.5 % loss: below the threshold
      Rec("edge-03", "us-west", 241, 1, 100),    \* 120.5 ms: just above 120
      Rec("edge-02", "us-west", 400, 10, 190),   \* the row of tests/test_pipeline.py
      Rec("edge-03", "us-west", 500, 16, 80),    \* 250 ms, 8 % loss: above both clips
      Rec("edge-01", "us-east", -20, 0, 181) }   \* negative latency, no loss, 90.5 % CPU

\* (region, device_id) pairs in the lexicographic order groupby sorts them in
SortedKeys ==
    << <<"us-east", "edge-01">>, <<"us-east", "edge-02">>, <<"us-east", "edge-03">>,
       <<"us-west", "edge-01">>, <<"us-west", "edge-02">>, <<"us-west", "edge-03">> >>

SortedRegions == <<"us-east", "us-west">>

FreeParts == UNION { [1..n -> Rows] : n \in 0..MaxFree }

Pad(k) == [i \in 1..k |-> BaseRow]

\* load_telemetry hands over a table sorted by timestamp: record i carries
\* timestamp i
Stamp(rows) == [i \in 1..Len(rows) |-> rows[i] @@ [timestamp |-> i]]

Columns(d) == IF Len(d) = 0 THEN {} ELSE DOMAIN d[1]

(**************************************************************** helpers *)
Min2(a, b) == IF a <= b THEN a ELSE b
Max2(a, b) == IF a >= b THEN a ELSE b

RECURSIVE SumSeq(_)
SumSeq(s) == IF Len(s) = 0 THEN 0 ELSE Head(s) + SumSeq(Tail(s))

RECURSIVE MaxSeq(_)
MaxSeq(s) == IF Len(s) = 1 THEN s[1] ELSE Max2(Head(s), MaxSeq(Tail(s)))

Squares(s) == [i \in 1..Len(s) |-> s[i] * s[i]]

Column(d, col) == [i \in 1..Len(d) |-> d[i][col]]

\* exact rationals <<n, d>> with d > 0 (d = 0 is NaN)
RatLess(a, b) == a[1] * b[2] < b[1] * a[2]
RatMax(a, b) == IF RatLess(a, b) THEN b ELSE a

\* insertion of x into the sorted sequence s
RECURSIVE Insert(_, _)
Insert(x, s) ==
    IF Len(s) = 0 THEN <<x>>
    ELSE IF x <= Head(s) THEN <<x>> \o s
    ELSE <<Head(s)>> \o Insert(x, Tail(s))

RECURSIVE Sorted(_)
Sorted(s) == IF Len(s) = 0 THEN <<>> ELSE Insert(Head(s), Sorted(Tail(s)))

\* Series.mean(): NaN on an empty series, in half units
SeriesMean(s) == IF Len(s) = 0 THEN NaN ELSE <<SumSeq(s), Len(s)>>

\* Series.median(), in half units
SeriesMedian(s) ==
    LET t == Sorted(s)
        n == Len(s)
    IN  IF n = 0 THEN NaN
        ELSE IF n % 2 = 1 THEN <<t[(n + 1) \div 2], 1>>
        ELSE <<t[n \div 2] + t[n \div 2 + 1], 2>>

\* Series.std(ddof): the variance <<num, den>> in half units squared, whose
\* root is the standard deviation; NaN when n - ddof <= 0
SeriesStd(s, ddof) ==
    LET n == Len(s)
    IN  IF n - ddof <= 0 THEN NaN
        ELSE <<n * SumSeq(Squares(s)) - SumSeq(s) * SumSeq(s), n * (n - ddof)>>

(************************************************* compute_latency_stats *)
\* variant: a row for every known pair, observed or not
GroupKeys_all(d) == SortedKeys

\* the (region, device_id) pairs observed in the table, in groupby's order

GroupKeys(d) ==
    SelectSeq(SortedKeys,
              LAMBDA k : \E i \in 1..Len(d) : d[i].region = k[1] /\ d[i].device_id = k[2])

\* the latency values of one partition, in row order
GroupLatencies(d, k) ==
    Column(SelectSeq(d, LAMBDA r : r.region = k[1] /\ r.device_id = k[2]), "latency_ms")

\* variant: the population deviation, ddof = 0
LatencyStd_population(g) == SeriesStd(g, 0)

\* the "std" aggregation of groupby: pandas' default, ddof = 1

LatencyStd(g) == SeriesStd(g, 1)

LatencyRow(d, k) ==
    LET g == GroupLatencies(d, k)
    IN  [region |-> k[1], device_id |-> k[2],
         mean_latency_ms |-> SeriesMean(g),
         median_latency_ms |-> SeriesMedian(g),
         max_latency_ms |-> IF Len(g) = 0 THEN NaN ELSE <<MaxSeq(g), 1>>,
         latency_std_ms |-> LatencyStd(g),
         samples |-> Len(g)]

compute_latency_stats(d) ==
    LET keys == GroupKeys(d)
    IN  Ok([i \in 1..Len(keys) |-> LatencyRow(d, keys[i])])

(***************************************** summarize_reliability_metrics *)
\* variant: the loss is not clipped
UptimeScore_unclipped(r) == <<200 - r.packet_loss_pct, 2>>

\* 100 - packet_loss_pct.clip(upper=5), in score points

UptimeScore(r) == <<200 - Min2(r.packet_loss_pct, UptimeClip), 2>>

\* variant: the latency is not clipped
PerformanceScore_unclipped(r) == <<400 - r.latency_ms, 4>>

\* 100 - latency_ms.clip(upper=200) / 2, in score points

PerformanceScore(r) == <<400 - Min2(r.latency_ms, PerformanceClip), 4>>

\* the frame with the two score columns assigned
Scored(d) ==
    [i \in 1..Len(d) |->
        d[i] @@ [uptime_score |-> UptimeScore(d[i]),
                 performance_score |-> PerformanceScore(d[i])]]

RegionsPresent(d) ==
    SelectSeq(SortedRegions, LAMBDA g : \E i \in 1..Len(d) : d[i].region = g)

\* the mean of a column of rationals that share one denominator
MeanOfScores(rows, col) ==
    <<SumSeq([i \in 1..Len(rows) |-> rows[i][col][1]]), rows[1][col][2] * Len(rows)>>

ReliabilityRow(local, g) ==
    LET rows == SelectSeq(local, LAMBDA r : r.region = g)
    IN  [region |-> g,
         uptime_score |-> MeanOfScores(rows, "uptime_score"),
         performance_score |-> MeanOfScores(rows, "performance_score"),
         avg_cpu_utilization_pct |->
             <<SumSeq(Column(rows, "cpu_utilization_pct")), 2 * Len(rows)>>]

GroupMeans(local) ==
    LET regions == RegionsPresent(local)
    IN  [i \in 1..Len(regions) |-> ReliabilityRow(local, regions[i])]

\* variant: without the copy the assignments land in the caller's table
summarize_reliability_metrics_inplace(d) ==
    [frame |-> Scored(d), summary |-> Ok(GroupMeans(Scored(d)))]

\* frame: the caller's table after the call; summary: the value returned

summarize_reliability_metrics(d) ==
    LET local == Scored(d)   \* df = df.copy(), then the two assignments
    IN  [frame |-> d, summary |-> Ok(GroupMeans(local))]

(**************************************** detect_performance_bottlenecks *)
\* variant: no fallback for a zero deviation
OrOne_missing(s) == s

\* `std or 1.0`: a zero deviation becomes 1.0 (variance 4 half-units squared);
\* NaN is truthy and stays

OrOne(s) == IF s[2] # 0 /\ s[1] = 0 THEN <<4, 1>> ELSE s

\* (series - mean) / std: for every record the sign and the square
\* <<num, den>> of its z-score.  den = 0 is a division by zero.
ZScores(s, std) ==
    LET n == Len(s)
        total == SumSeq(s)
        den == IF std[2] = 0 THEN 0 ELSE (n * n * std[1]) \div std[2]
    IN  [i \in 1..n |->
            LET D == n * s[i] - total
            IN  [sign |-> IF D > 0 THEN 1 ELSE IF D < 0 THEN -1 ELSE 0,
                 sq |-> IF den = 0 THEN NaN ELSE <<D * D, den>>]]

\* z > 2.5; every comparison with NaN is false
ZExceeds(z) ==
    /\ z.sq[2] # 0
    /\ z.sign > 0
    /\ ZLimitDen * ZLimitDen * z.sq[1] > ZLimitNum * ZLimitNum * z.sq[2]

latency_std(d) == OrOne(SeriesStd(Column(d, "latency_ms"), 0))
loss_std(d) == OrOne(SeriesStd(Column(d, "packet_loss_pct"), 0))
z_latency(d) == ZScores(Column(d, "latency_ms"), latency_std(d))
z_loss(d) == ZScores(Column(d, "packet_loss_pct"), loss_std(d))

\* variant: the fixed thresholds alone
anomaly_mask_thresholds_only(d) ==
    [i \in 1..Len(d) |->
        \/ d[i].latency_ms > latency_threshold_ms
        \/ d[i].packet_loss_pct > packet_loss_threshold_pct
        \/ d[i].cpu_utilization_pct > cpu_threshold_pct]

\* the five conditions, or-ed
anomaly_mask(d) ==
    LET zlat == z_latency(d)
        zloss == z_loss(d)
    IN  [i \in 1..Len(d) |->
            \/ d[i].latency_ms > latency_threshold_ms
            \/ d[i].packet_loss_pct > packet_loss_threshold_pct
            \/ d[i].cpu_utilization_pct > cpu_threshold_pct
            \/ ZExceeds(zlat[i])
            \/ ZExceeds(zloss[i])]

\* the three overshoot ratios; max(packet_loss_threshold_pct, 1e-6) is the
\* threshold itself, 1e-6 being far below it
LatencyRatio(r) == <<r.latency_ms - latency_threshold_ms, latency_threshold_ms>>
LossRatio(r) == <<r.packet_loss_pct - packet_loss_threshold_pct, packet_loss_threshold_pct>>
CpuRatio(r) == <<r.cpu_utilization_pct - cpu_threshold_pct, cpu_threshold_pct>>

RawSeverity(r) == RatMax(RatMax(LatencyRatio(r), LossRatio(r)), CpuRatio(r))

\* round(x, 2) of a rational x >= 0, in hundredths; ties go to the even digit
Round2(x) ==
    LET h == (100 * x[1]) \div x[2]
        rem == 100 * x[1] - h * x[2]
    IN  IF 2 * rem > x[2] THEN h + 1
        ELSE IF 2 * rem = x[2] /\ h % 2 = 1 THEN h + 1
        ELSE h

\* variant: round(severity, 2) without the clamp at 0
Severity_unclamped(r) ==
    LET s == RawSeverity(r)
    IN  IF s[1] >= 0 THEN Round2(s) ELSE -Round2(<<-s[1], s[2]>>)

\* round(max(severity, 0.0), 2), in hundredths
Severity(r) == Round2(RatMax(RawSeverity(r), <<0, 1>>))

MakeBottleneck(r) ==
    [device_id |-> r.device_id, region |-> r.region,
     metric |-> "latency/packet_loss/cpu",
     severity |-> Severity(r),
     description |-> [timestamp |-> r.timestamp, latency_ms |-> r.latency_ms,
                      packet_loss_pct |-> r.packet_loss_pct]]

\* the loop over df.loc[anomaly_mask].itertuples()
RECURSIVE Flagged(_, _, _)
Flagged(d, mask, i) ==
    IF i > Len(d) THEN <<>>
    ELSE (IF mask[i] THEN <<MakeBottleneck(d[i])>> ELSE <<>>) \o Flagged(d, mask, i + 1)

\* variant: a mean computed as sum / len, which raises on no rows
detect_performance_bottlenecks_mean_by_hand(d) ==
    IF Len(d) = 0 THEN Raised("ZeroDivisionError") ELSE Ok(Flagged(d, anomaly_mask(d), 1))

detect_performance_bottlenecks(d) == Ok(Flagged(d, anomaly_mask(d), 1))

(******************************************************************* Init *)
\* The table as load_telemetry returns it: any sequence of up to MaxFree
\* records of Rows, with up to MaxPad ordinary records before or after it
\* (a z-score above 2.5 needs at least 8 records).  The process is either a
\* library client, which calls the three functions in any order, or main().
Init ==
    /\ \E free \in FreeParts, k \in 0..MaxPad :
         \/ df = Stamp(Pad(k) \o free)
         \/ df = Stamp(free \o Pad(k))
    /\ latency_stats = NoResult
    /\ reliability = NoResult
    /\ bottlenecks = NoResult
    /\ reruns = 0
    /\ pc \in {"lib", "main"}
    /\ failed_step = "none"
    /\ csv_file = "absent"
    /\ html_file = "absent"

(********************************************************* library calls *)
\* a call that recomputes a result already held is counted, up to MaxReruns
Recall(held) ==
    IF held = NoResult THEN reruns' = reruns
    ELSE reruns < MaxReruns /\ reruns' = reruns + 1

CallComputeLatencyStats ==
    /\ pc = "lib"
    /\ Recall(latency_stats)
    /\ latency_stats' = compute_latency_stats(df)
    /\ UNCHANGED <<df, reliability, bottlenecks, pc, failed_step, csv_file, html_file>>

CallSummarizeReliability ==
    /\ pc = "lib"
    /\ Recall(reliability)
    /\ LET call == summarize_reliability_metrics(df)
       IN  df' = call.frame /\ reliability' = call.summary
    /\ UNCHANGED <<latency_stats, bottlenecks, pc, failed_step, csv_file, html_file>>

CallDetectBottlenecks ==
    /\ pc = "lib"
    /\ Recall(bottlenecks)
    /\ bottlenecks' = detect_performance_bottlenecks(df)
    /\ UNCHANGED <<df, latency_stats, reliability, pc, failed_step, csv_file, html_file>>

(***************************************************************** main() *)
\* run_pipeline: load_telemetry, then the three analytic functions in turn
RunPipeline ==
    /\ pc = "main"
    /\ latency_stats' = compute_latency_stats(df)
    /\ LET call == summarize_reliability_metrics(df)
       IN  /\ df' = call.frame
           /\ reliability' = call.summary
           /\ bottlenecks' = detect_performance_bottlenecks(call.frame)
    /\ pc' = "ran"
    /\ UNCHANGED <<reruns, failed_step, csv_file, html_file>>

\* variant: the export runs although the load failed
RunPipelineFails_header_written ==
    /\ pc = "main"
    /\ pc' = "aborted"
    /\ failed_step' = "run_pipeline"
    /\ csv_file' = "complete"
    /\ UNCHANGED <<df, latency_stats, reliability, bottlenecks, reruns, html_file>>

\* load_telemetry raises (missing file, malformed CSV, bad timestamps)
RunPipelineFails ==
    /\ pc = "main"
    /\ pc' = "aborted"
    /\ failed_step' = "run_pipeline"
    /\ UNCHANGED <<df, latency_stats, reliability, bottlenecks, reruns, csv_file, html_file>>

\* export_bottlenecks: mkdir, then to_csv
ExportBottlenecks ==
    /\ pc = "ran"
    /\ csv_file' = "complete"
    /\ pc' = "exported"
    /\ UNCHANGED <<df, latency_stats, reliability, bottlenecks, reruns, failed_step, html_file>>

\* mkdir or the open raises (nothing written), or to_csv raises while writing
ExportBottlenecksFails ==
    /\ pc = "ran"
    /\ \E left \in {"absent", "partial"} : csv_file' = left
    /\ pc' = "aborted"
    /\ failed_step' = "export_bottlenecks"
    /\ UNCHANGED <<df, latency_stats, reliability, bottlenecks, reruns, html_file>>

\* build_dashboard: mkdir, the figures, then the document is written
BuildDashboard ==
    /\ pc = "exported"
    /\ html_file' = "complete"
    /\ pc' = "done"
    /\ UNCHANGED <<df, latency_stats, reliability, bottlenecks, reruns, failed_step, csv_file>>

\* mkdir, a figure or the open raises (nothing written), or a write or
\* fig.to_html raises inside the with block (the opened file stays)
BuildDashboardFails ==
    /\ pc = "exported"
    /\ \E left \in {"absent", "partial"} : html_file' = left
    /\ pc' = "aborted"
    /\ failed_step' = "build_dashboard"
    /\ UNCHANGED <<df, latency_stats, reliability, bottlenecks, reruns, csv_file>>

Next ==
    \/ CallComputeLatencyStats
    \/ CallSummarizeReliability
    \/ CallDetectBottlenecks
    \/ RunPipeline
    \/ RunPipelineFails
    \/ ExportBottlenecks
    \/ ExportBottlenecksFails
    \/ BuildDashboard
    \/ BuildDashboardFails

Spec == Init /\ [][Next]_vars

(***************************************************************************)
(*                               Properties                                *)
(***************************************************************************)
Indices(d) == 1..Len(d)

\* the record a Bottleneck was made from: its description names the timestamp
RecordOf(b) == df[b.description.timestamp]

\* for every record, whether its population z-score within the series s
\* exceeds 2.5, from the deviations of the values from their mean (scaled by n)
PopulationZAbove(s) ==
    LET n == Len(s)
        total == SumSeq(s)
        ss == SumSeq([j \in 1..n |-> (n * s[j] - total) * (n * s[j] - total)])
    IN  [i \in 1..n |->
            /\ ss > 0
            /\ n * s[i] - total > 0
            /\ 4 * (n * s[i] - total) * (n * s[i] - total) > 25 * (ss \div n)]

OverLatency(r) == r.latency_ms > 240
OverLoss(r) == r.packet_loss_pct > 4
OverCpu(r) == r.cpu_utilization_pct > 180
OverThreshold(r) == OverLatency(r) \/ OverLoss(r) \/ OverCpu(r)
ZLatency == PopulationZAbove(Column(df, "latency_ms"))
ZLoss == PopulationZAbove(Column(df, "packet_loss_pct"))

\* C1: detect_performance_bottlenecks returns exactly one Bottleneck for each
\* record that satisfies at least one of the five conditions, none for any
\* other record, in the row order of the table, each with the device_id and
\* region of its record.
C1_OnePerFlaggedRecordInOrder ==
    bottlenecks.status = "ok" =>
        LET zlat == ZLatency
            zloss == ZLoss
            flagged == SelectSeq(df, LAMBDA r : OverThreshold(r) \/ zlat[r.timestamp]
                                                  \/ zloss[r.timestamp])
            out == bottlenecks.value
        IN  /\ Len(out) = Len(flagged)
            /\ \A k \in 1..Len(out) :
                  /\ out[k].description.timestamp = flagged[k].timestamp
                  /\ out[k].device_id = flagged[k].device_id
                  /\ out[k].region = flagged[k].region

\* a table in which one record is flagged by a fixed threshold, a later one
\* only by its loss z-score, and another record is not flagged
C1_Witness ==
    /\ bottlenecks.status = "ok"
    /\ Len(bottlenecks.value) >= 2
    /\ \E i, j, k \in Indices(df) :
          /\ i < j
          /\ OverLatency(df[i])
          /\ ZLoss[j] /\ ~ZLatency[j] /\ ~OverThreshold(df[j])
          /\ ~OverThreshold(df[k]) /\ ~ZLatency[k] /\ ~ZLoss[k]

\* every overshoot ratio of the record is <= 0
NoOvershoot(r) ==
    /\ r.latency_ms - 240 <= 0
    /\ r.packet_loss_pct - 4 <= 0
    /\ r.cpu_utilization_pct - 180 <= 0

\* every overshoot ratio of the record is below 0.005: 200 * (x - t) < t
OvershootBelowHalfCent(r) ==
    /\ 200 * (r.latency_ms - 240) < 240
    /\ 200 * (r.packet_loss_pct - 4) < 4
    /\ 200 * (r.cpu_utilization_pct - 180) < 180

\* some overshoot ratio of the record is above 0.005
OvershootAboveHalfCent(r) ==
    \/ 200 * (r.latency_ms - 240) > 240
    \/ 200 * (r.packet_loss_pct - 4) > 4
    \/ 200 * (r.cpu_utilization_pct - 180) > 180

\* C2 as stated: severity is >= 0, and is 0 exactly when all three overshoot
\* ratios of the record are <= 0.
C2_SeverityZeroIffNoOvershoot ==
    bottlenecks.status = "ok" =>
        \A k \in 1..Len(bottlenecks.value) :
            LET b == bottlenecks.value[k]
            IN  /\ b.severity >= 0
                /\ (b.severity = 0) <=> NoOvershoot(RecordOf(b))

\* C2 amended: severity is >= 0; it is 0 whenever all three overshoot ratios
\* are below 0.005 (so whenever they are <= 0), and above 0 whenever one of
\* them is above 0.005: the rounding to 2 places decides, not the sign.
C2_SeverityZeroIffRoundsToZero ==
    bottlenecks.status = "ok" =>
        \A k \in 1..Len(bottlenecks.value) :
            LET b == bottlenecks.value[k]
            IN  /\ b.severity >= 0
                /\ NoOvershoot(RecordOf(b)) => b.severity = 0
                /\ OvershootBelowHalfCent(RecordOf(b)) => b.severity = 0
                /\ OvershootAboveHalfCent(RecordOf(b)) => b.severity > 0

\* a Bottleneck flagged only by its latency z-score, with severity 0
C2_Witness ==
    /\ bottlenecks.status = "ok"
    /\ \E k \in 1..Len(bottlenecks.value) :
          /\ NoOvershoot(RecordOf(bottlenecks.value[k]))
          /\ RecordOf(bottlenecks.value[k]).latency_ms < 240
          /\ ZLatency[bottlenecks.value[k].description.timestamp]
          /\ bottlenecks.value[k].severity = 0

\* C3 as stated: when the run has aborted neither output file exists, and
\* both exist only when the run completed.
C3_NoPartialOutput ==
    /\ pc = "aborted" => csv_file = "absent" /\ html_file = "absent"
    /\ (csv_file # "absent" /\ html_file # "absent") => pc = "done"

\* C3 amended: a run that fails in run_pipeline has written nothing, the
\* dashboard is complete only when the run completed, and a completed run
\* has written both files; but a run that fails in build_dashboard leaves the
\* bottleneck CSV written in full.
C3_OutputsByFailedStep ==
    /\ (pc = "aborted" /\ failed_step = "run_pipeline") =>
           csv_file = "absent" /\ html_file = "absent"
    /\ (pc = "aborted" /\ failed_step = "export_bottlenecks") => html_file = "absent"
    /\ (pc = "aborted" /\ failed_step = "build_dashboard") => csv_file = "complete"
    /\ html_file = "complete" => pc = "done"
    /\ pc = "done" => csv_file = "complete" /\ html_file = "complete"

\* build_dashboard raised after export_bottlenecks had written its file
C3_Witness ==
    /\ pc = "aborted"
    /\ failed_step = "build_dashboard"
    /\ csv_file = "complete"
    /\ html_file = "partial"

\* number of records of the table with the given (region, device_id)
RecordsOf(reg, dev) ==
    Cardinality({i \in Indices(df) : df[i].region = reg /\ df[i].device_id = dev})

\* the latencies of the (region, device_id) partition are all the same
SameLatency(reg, dev) ==
    \A i, j \in Indices(df) :
        (df[i].region = reg /\ df[i].device_id = dev /\
         df[j].region = reg /\ df[j].device_id = dev) =>
            df[i].latency_ms = df[j].latency_ms

PairsPresent == {<<df[i].region, df[i].device_id>> : i \in Indices(df)}

C6_EmptyInEmptyOut ==
    Len(df) = 0 =>
        /\ latency_stats \in {NoResult, Ok(<<>>)}
        /\ reliability \in {NoResult, Ok(<<>>)}
        /\ bottlenecks \in {NoResult, Ok(<<>>)}

\* all three functions have returned on the zero-row table
C6_Witness ==
    /\ Len(df) = 0
    /\ latency_stats = Ok(<<>>)
    /\ reliability = Ok(<<>>)
    /\ bottlenecks = Ok(<<>>)

RegionSet == {df[i].region : i \in Indices(df)}
RecordsIn(g) == {i \in Indices(df) : df[i].region = g}

\* what a record adds to the uptime of its region, in half points: 100 for
\* no loss, 95 for a loss of 5 or more, 100 - loss between
UptimeShare(i) ==
    IF df[i].packet_loss_pct = 0 THEN 200
    ELSE IF df[i].packet_loss_pct >= 10 THEN 190
    ELSE 200 - df[i].packet_loss_pct

RECURSIVE UptimeTotal(_)
UptimeTotal(S) ==
    IF S = {} THEN 0
    ELSE LET x == CHOOSE y \in S : TRUE IN UptimeShare(x) + UptimeTotal(S \ {x})

\* C7: summarize_reliability_metrics emits exactly one row per region of the
\* input, whose uptime_score is the mean over the region's records of
\* 100 - min(packet_loss_pct, 5).
C7_UptimeIsMeanOfCappedLoss ==
    reliability.status = "ok" =>
        LET out == reliability.value
        IN  /\ Len(out) = Cardinality(RegionSet)
            /\ \A a, b \in 1..Len(out) : out[a].region = out[b].region => a = b
            /\ \A a \in 1..Len(out) :
                  /\ out[a].region \in RegionSet
                  /\ out[a].uptime_score[2] > 0
                  /\ out[a].uptime_score[1] * 2 * Cardinality(RecordsIn(out[a].region))
                        = out[a].uptime_score[2] * UptimeTotal(RecordsIn(out[a].region))

\* a summary of two regions, one holding a record without loss, the other a
\* record whose loss is above 5
C7_Witness ==
    /\ reliability.status = "ok"
    /\ Len(reliability.value) = 2
    /\ \E i, j \in Indices(df) :
          /\ df[i].packet_loss_pct = 0
          /\ df[j].packet_loss_pct > 10
          /\ df[i].region # df[j].region

ScoreColumns == {"uptime_score", "performance_score"}

\* C8: no call changes the table (same rows, same columns, no score column
\* added), and a function called again returns what it returned before.
C8_PureAndIdempotent ==
    [][ /\ df' = df
        /\ Columns(df') \cap ScoreColumns = {}
        /\ latency_stats # NoResult => latency_stats' = latency_stats
        /\ reliability # NoResult => reliability' = reliability
        /\ bottlenecks # NoResult => bottlenecks' = bottlenecks ]_vars

\* every function has returned on a table of several records, and one of
\* them has been called a second time
C8_Witness ==
    /\ reruns >= 1
    /\ Len(df) >= 2
    /\ latency_stats.status = "ok"
    /\ reliability.status = "ok"
    /\ bottlenecks.status = "ok"

AllEqual(col) == \A i, j \in Indices(df) : df[i][col] = df[j][col]

FlaggedTimestamps == {bottlenecks.value[k].description.timestamp :
                         k \in 1..Len(bottlenecks.value)}

\* C9: when the population deviation of latency_ms (of packet_loss_pct) over
\* the whole non-empty table is 0 it is taken as 1.0: nothing is divided by
\* zero, every z-score of that metric is 0, and the flagged records are
\* those over a fixed threshold or over the other metric's z-score limit.
C9_ZeroDeviationTakenAsOne ==
    (bottlenecks.status = "ok" /\ Len(df) > 0) =>
        LET zlat == z_latency(df)
            zloss == z_loss(df)
            otherlat == ZLatency
            otherloss == ZLoss
        IN  /\ AllEqual("latency_ms") =>
                  /\ latency_std(df) = <<4, 1>>
                  /\ \A i \in Indices(df) :
                        /\ zlat[i].sq[2] # 0
                        /\ zlat[i].sq[1] = 0
                        /\ zloss[i].sq[2] # 0
                  /\ FlaggedTimestamps =
                        {i \in Indices(df) : OverThreshold(df[i]) \/ otherloss[i]}
            /\ AllEqual("packet_loss_pct") =>
                  /\ loss_std(df) = <<4, 1>>
                  /\ \A i \in Indices(df) :
                        /\ zloss[i].sq[2] # 0
                        /\ zloss[i].sq[1] = 0
                        /\ zlat[i].sq[2] # 0
                  /\ FlaggedTimestamps =
                        {i \in Indices(df) : OverThreshold(df[i]) \/ otherlat[i]}

\* every loss of the table is the same while one record is flagged by its
\* latency z-score alone
C9_Witness ==
    /\ bottlenecks.status = "ok"
    /\ Len(df) >= 2
    /\ AllEqual("packet_loss_pct")
    /\ ~AllEqual("latency_ms")
    /\ \E i \in Indices(df) :
          /\ ZLatency[i]
          /\ NoOvershoot(df[i])
          /\ i \in FlaggedTimestamps

InRange(x, lo, hi) == lo * x[2] <= x[1] /\ x[1] <= hi * x[2]

\* C10 as stated: every uptime_score and performance_score of the summary
\* lies in 0..100, for every table.
C10_ScoresWithin0To100 ==
    reliability.status = "ok" =>
        \A a \in 1..Len(reliability.value) :
            /\ InRange(reliability.value[a].uptime_score, 0, 100)
            /\ InRange(reliability.value[a].performance_score, 0, 100)

NonNegativeIn(g) ==
    \A i \in RecordsIn(g) : df[i].latency_ms >= 0 /\ df[i].packet_loss_pct >= 0

\* C10 amended: performance_score never falls below 0 and uptime_score never
\* below 95, however large latency_ms and packet_loss_pct are; neither
\* exceeds 100 in a region whose latency_ms and packet_loss_pct are all
\* non-negative.
C10_ScoresFloorAndCeiling ==
    reliability.status = "ok" =>
        \A a \in 1..Len(reliability.value) :
            LET row == reliability.value[a]
            IN  /\ row.performance_score[2] > 0 /\ row.uptime_score[2] > 0
                /\ row.performance_score[1] >= 0
                /\ row.uptime_score[1] >= 95 * row.uptime_score[2]
                /\ NonNegativeIn(row.region) =>
                      /\ InRange(row.uptime_score, 0, 100)
                      /\ InRange(row.performance_score, 0, 100)

\* a region whose records all have a latency above 200 ms: its
\* performance_score is at the floor
C10_Witness ==
    /\ reliability.status = "ok"
    /\ \E a \in 1..Len(reliability.value) :
          /\ reliability.value[a].performance_score[1] = 0
          /\ NonNegativeIn(reliability.value[a].region)
          /\ \E i \in RecordsIn(reliability.value[a].region) : df[i].latency_ms > 400

====
